---- MODULE Spec2Model ----
(***************************************************************************)
(* Model of the in-memory store of tools/workstate-dashboard.py: the       *)
(* sessions mapping, the expired (retired) log, and the operations that    *)
(* run under the single lock: upsert_session, delete_session,              *)
(* get_sessions_json and one pass of sweeper.                              *)
(***************************************************************************)
EXTENDS Integers, Sequences, FiniteSets, TLC

VARIABLES
    sessions,   \* dict session_id -> Session (a function on the live ids)
    expired,    \* list of retired entries
    now,        \* the wall clock, in seconds
    req,        \* the last call made into the store: [op, ...arguments]
    result,     \* what that call returned: [body, code]
    fuel,       \* how many more upsert and delete calls the reporters make
    lock,       \* the thread that holds the lock, or None
    running     \* per thread: where it is in its call, the call and its locals

vars == <<sessions, expired, now, req, result, fuel, lock, running>>

----------------------------------------------------------------------------
(* Program constants *)

MAX_HISTORY == 5
WARN_SECONDS == 60
STALE_SECONDS == 180
EXPIRE_SECONDS == 600
PURGE_SECONDS == 300

----------------------------------------------------------------------------
(* Bounds of the model *)

MaxTime == 601          \* the clock stops advancing here
MaxExpired == 2         \* no call is made that would grow the log past this
MaxCalls == 3           \* upsert and delete calls made in one run
MaxHistoryCalls == 7    \* the same, in the runs that fill a history log
MaxStaleCalls == 2      \* the same, in the runs that let entities age
MaxRetired == 11        \* length of the log in the runs that overfill a snapshot
MaxRetireCalls == 13    \* upsert calls made in those runs
MaxLockCalls == 3       \* upsert and delete calls made by concurrent threads
MaxFrameCalls == 4      \* upsert calls in the runs with sub-workers of two parents
MaxFairCalls == 2       \* upsert and delete calls in the runs with a fair lock
MaxPeriodicTime == 903  \* the clock stops here in the runs of the periodic sweeper

Ticks == {299, 300, 301}    \* amounts by which the clock advances
CoarseTicks == {601}        \* the same, where only "long ago" matters
StaleTicks == {59, 60}      \* the same, around the two staleness thresholds
PeriodicTicks == {300, 301} \* the same, in the runs of the periodic sweeper

Callers == {"h1", "h2"}                 \* request threads of the HTTP server
Procs == Callers \cup {"sweeper"}       \* the threads that touch the store

SessionIds == {"s1", "s2"}
SidValues == SessionIds \cup {""}
MissingSidValues == {""}
ParentValues == SessionIds
CoreParents == {"s1"}
ThreadIdValues == {"t1"}
NameValues == {"alpha"}
TaskValues == {"build", "test"}
CoreTasks == {"build"}
StatusValues == {"Done"}
RiskValues == {"high"}

----------------------------------------------------------------------------
(* Python values *)

None == "None"

\* dict.get(key, default)
Get(data, key, default) ==
    IF key \in DOMAIN data THEN data[key] ELSE default

\* truth value of an optional string: None and "" are falsy
Truthy(v) == v # None /\ v # ""

\* the dict d without the keys in ks
Without(d, ks) == [k \in (DOMAIN d) \ ks |-> d[k]]

\* the dict d with d[k] = v
With(d, k, v) == [j \in (DOMAIN d) \cup {k} |-> IF j = k THEN v ELSE d[j]]

\* the last n elements of a list: s[-n:]
LastN(s, n) ==
    IF Len(s) <= n THEN s ELSE SubSeq(s, Len(s) - n + 1, Len(s))

----------------------------------------------------------------------------
(* Clock *)

\* An ISO-8601 string is modelled by the instant it denotes.
now_iso == [utc |-> now]

IsoParses(iso_str) == DOMAIN iso_str = {"utc"}

\* a string that does not parse counts as very old
seconds_since_Ancient(iso_str) ==
    IF IsoParses(iso_str) THEN now - iso_str.utc ELSE 3600

seconds_since(iso_str) ==
    IF IsoParses(iso_str) THEN now - iso_str.utc ELSE 0

\* the first threshold taken inclusive
staleness_Inclusive(last_seen) ==
    LET age == seconds_since(last_seen) IN
    IF age <= WARN_SECONDS THEN "ok"
    ELSE IF age < STALE_SECONDS THEN "warning"
    ELSE "idle"

staleness(last_seen) ==
    LET age == seconds_since(last_seen) IN
    IF age < WARN_SECONDS THEN "ok"
    ELSE IF age < STALE_SECONDS THEN "warning"
    ELSE "idle"

relative_time(iso_str) ==
    LET age == seconds_since(iso_str) IN
    IF age < 60 THEN ToString(age) \o "s ago"
    ELSE IF age < 3600 THEN ToString(age \div 60) \o "m ago"
    ELSE ToString(age \div 3600) \o "h ago"

----------------------------------------------------------------------------
(* Report payloads: a dict holding any subset of the recognised keys *)

ReportKeys ==
    {"session_id", "parent_id", "thread_id", "name", "task", "status", "risk"}

CoreKeys == {"session_id", "parent_id", "thread_id", "task", "status"}

KeyValues(k) ==
    CASE k = "session_id" -> SidValues
      [] k = "parent_id"  -> ParentValues
      [] k = "thread_id"  -> ThreadIdValues
      [] k = "name"       -> NameValues
      [] k = "task"       -> TaskValues
      [] k = "status"     -> StatusValues
      [] k = "risk"       -> RiskValues

\* every dict whose keys are among Keys
ReportsOver(Keys) ==
    UNION { { d \in [K -> UNION {KeyValues(k) : k \in K}] :
                \A k \in K : d[k] \in KeyValues(k) } : K \in SUBSET Keys }

\* the report d, of a reporter that is stuck where d says it has finished
Blocked(d) == [k \in DOMAIN d |-> IF k = "status" THEN "Blocked" ELSE d[k]]

\* reports that name a session, and reports that upsert_session rejects
NamedReports == {d \in ReportsOver(CoreKeys) :
                    /\ "session_id" \in DOMAIN d
                    /\ d["session_id"] \in SessionIds
                    /\ "parent_id" \in DOMAIN d => d["parent_id"] \in CoreParents
                    /\ "task" \in DOMAIN d => d["task"] \in CoreTasks}
RejectedReports == {d \in ReportsOver({"session_id", "parent_id"}) :
                    /\ "session_id" \in DOMAIN d => d["session_id"] \in MissingSidValues
                    /\ "parent_id" \in DOMAIN d => d["parent_id"] \in CoreParents}

Reports == NamedReports \cup RejectedReports

\* reports of reporters and sub-workers that start, go silent or finish
SweepReports == {d \in ReportsOver({"session_id", "parent_id", "status"}) :
                    "session_id" \in DOMAIN d /\ d["session_id"] \in SessionIds}

\* reports of one reporter and its sub-worker, which then age
StaleReports == {d \in ReportsOver({"session_id", "parent_id"}) :
                    /\ "session_id" \in DOMAIN d /\ d["session_id"] = "s1"
                    /\ "parent_id" \in DOMAIN d => d["parent_id"] = "s1"}

\* reports of a reporter that starts and finishes over and over, next to a
\* session that stays and collects sub-workers
RetireReports ==
    {d \in ReportsOver({"session_id", "parent_id", "status"}) :
        /\ "session_id" \in DOMAIN d /\ d["session_id"] \in SessionIds
        /\ "status" \in DOMAIN d => d["session_id"] = "s1"
        /\ "parent_id" \in DOMAIN d => d["parent_id"] \in SessionIds}

\* reports of reporters and sub-workers that may carry a display name
NameReports ==
    {d \in ReportsOver({"session_id", "parent_id", "thread_id", "name", "task", "status"}) :
        /\ "session_id" \in DOMAIN d /\ d["session_id"] \in SessionIds
        /\ "parent_id" \in DOMAIN d => d["parent_id"] \in CoreParents
        /\ "thread_id" \in DOMAIN d => "parent_id" \in DOMAIN d
        /\ "task" \in DOMAIN d => d["task"] \in CoreTasks}

\* reports of one reporter and its sub-worker that fill in or leave out the
\* task, the status and the risk
MergeReports ==
    {Blocked(d) : d \in
        {r \in ReportsOver({"session_id", "parent_id", "task", "status", "risk"}) :
            /\ "session_id" \in DOMAIN r /\ r["session_id"] = "s1"
            /\ "parent_id" \in DOMAIN r => r["parent_id"] = "s1"
            /\ "task" \in DOMAIN r => r["task"] \in CoreTasks}}

\* reports that threads of the server handle at the same time
LockReports ==
    {d \in ReportsOver({"session_id", "parent_id", "status"}) :
        /\ "session_id" \in DOMAIN d => d["session_id"] = "s1"
        /\ "parent_id" \in DOMAIN d => d["parent_id"] = "s1" /\ "session_id" \in DOMAIN d}

\* reports of two reporters and of sub-workers under either of them
FrameReports ==
    {d \in ReportsOver({"session_id", "parent_id", "task"}) :
        /\ "session_id" \in DOMAIN d /\ d["session_id"] \in SessionIds
        /\ "task" \in DOMAIN d => d["task"] \in CoreTasks}

\* reports of a reporter, its sub-workers, and a reporter that only finishes
PeriodicReports ==
    {d \in ReportsOver({"session_id", "parent_id", "status"}) :
        /\ "session_id" \in DOMAIN d /\ d["session_id"] \in SessionIds
        /\ "parent_id" \in DOMAIN d => d["parent_id"] = "s1"
        /\ "status" \in DOMAIN d <=>
              d["session_id"] = "s2" /\ "parent_id" \notin DOMAIN d}

\* reports of one reporter that keeps changing its task
HistoryReports == {d \in ReportsOver({"session_id", "task", "status"}) :
                    "session_id" \in DOMAIN d /\ d["session_id"] = "s1"}

----------------------------------------------------------------------------
(* upsert_session *)

\* only an absent key counts as missing
MissingSid_NoneOnly(sid) == sid = None

MissingSid(sid) == ~Truthy(sid)

\* the thread-report branch is never taken
IsThreadReport_Never(parent_id) == FALSE

\* the condition of the thread-report branch
IsThreadReport(parent_id) == Truthy(parent_id) /\ parent_id \in DOMAIN sessions

\* the update leaves the last-report timestamp alone
MergeThread_NoRefresh(t, data) ==
    [t EXCEPT !.task = Get(data, "task", t.task),
              !.status = Get(data, "status", t.status),
              !.risk = Get(data, "risk", t.risk)]

\* update of an existing thread
MergeThread(t, data) ==
    [t EXCEPT !.task = Get(data, "task", t.task),
              !.status = Get(data, "status", t.status),
              !.risk = Get(data, "risk", t.risk),
              !.last_seen = now_iso]

\* a new thread without a reported name gets the empty name
NewThread_Unnamed(tid, data) ==
    [thread_id |-> tid,
     name      |-> Get(data, "name", ""),
     task      |-> Get(data, "task", ""),
     status    |-> Get(data, "status", "Running"),
     risk      |-> Get(data, "risk", "-"),
     started   |-> now_iso,
     last_seen |-> now_iso]

NewThread(tid, data) ==
    [thread_id |-> tid,
     name      |-> Get(data, "name", tid),
     task      |-> Get(data, "task", ""),
     status    |-> Get(data, "status", "Running"),
     risk      |-> Get(data, "risk", "-"),
     started   |-> now_iso,
     last_seen |-> now_iso]

\* done threads are left in place
CleanDoneThreads_None(threads) == threads

\* "Clean up done threads"
CleanDoneThreads(threads) ==
    Without(threads, {k \in DOMAIN threads : threads[k].status = "Done"})

\* a thread report also refreshes its parent
UpsertThread_TouchParent(parent_id, sid, data) ==
    LET parent  == sessions[parent_id]
        tid     == Get(data, "thread_id", sid)
        merged  == IF tid \in DOMAIN parent.threads
                   THEN With(parent.threads, tid, MergeThread(parent.threads[tid], data))
                   ELSE With(parent.threads, tid, NewThread(tid, data))
        cleaned == CleanDoneThreads(merged)
        after   == [sessions EXCEPT ![parent_id].threads = cleaned,
                                    ![parent_id].last_seen = now_iso]
    IN  [sessions |-> after,
         expired  |-> expired,
         result   |-> [body |-> [ok |-> TRUE, session_id |-> parent_id,
                                 thread_id |-> tid,
                                 active_sessions |-> Cardinality(DOMAIN after)],
                       code |-> 200]]

UpsertThread(parent_id, sid, data) ==
    LET parent  == sessions[parent_id]
        tid     == Get(data, "thread_id", sid)
        merged  == IF tid \in DOMAIN parent.threads
                   THEN With(parent.threads, tid, MergeThread(parent.threads[tid], data))
                   ELSE With(parent.threads, tid, NewThread(tid, data))
        cleaned == CleanDoneThreads(merged)
        after   == [sessions EXCEPT ![parent_id].threads = cleaned]
    IN  [sessions |-> after,
         expired  |-> expired,
         result   |-> [body |-> [ok |-> TRUE, session_id |-> parent_id,
                                 thread_id |-> tid,
                                 active_sessions |-> Cardinality(DOMAIN after)],
                       code |-> 200]]

\* the append without the truncation
PushHistory_NoTrim(history, old_task) == Append(history, old_task)

\* the truncation keeps the oldest entries: [:MAX_HISTORY]
PushHistory_KeepOldest(history, old_task) ==
    LET appended == Append(history, old_task) IN
    IF Len(appended) > MAX_HISTORY THEN SubSeq(appended, 1, MAX_HISTORY) ELSE appended

\* s.history.append(s.task), truncated to the last MAX_HISTORY entries
PushHistory(history, old_task) ==
    LET appended == Append(history, old_task) IN
    IF Len(appended) > MAX_HISTORY THEN LastN(appended, MAX_HISTORY) ELSE appended

\* the old task is pushed on every report, changed or not
MergeSession_AlwaysPush(s, data) ==
    LET new_task == Get(data, "task", s.task) IN
    [s EXCEPT !.history = PushHistory(s.history, s.task),
              !.task = new_task,
              !.status = Get(data, "status", s.status),
              !.risk = Get(data, "risk", s.risk),
              !.last_seen = now_iso]

\* update of an existing session
MergeSession(s, data) ==
    LET new_task == Get(data, "task", s.task) IN
    [s EXCEPT !.history = IF new_task # s.task THEN PushHistory(s.history, s.task)
                          ELSE s.history,
              !.task = new_task,
              !.status = Get(data, "status", s.status),
              !.risk = Get(data, "risk", s.risk),
              !.last_seen = now_iso]

DefaultName(n) == "session-" \o ToString(n)

NewSession(sid, data) ==
    [session_id |-> sid,
     name       |-> Get(data, "name", DefaultName(Cardinality(DOMAIN sessions) + 1)),
     task       |-> Get(data, "task", "Session started"),
     status     |-> Get(data, "status", "Running"),
     risk       |-> Get(data, "risk", "-"),
     started    |-> now_iso,
     last_seen  |-> now_iso,
     history    |-> <<>>,
     threads    |-> <<>>]

RetiredEntry(s) ==
    [name |-> s.name, last_task |-> s.task, expired_at |-> now_iso]

\* a Done session is left for a later pass to remove
RetireIfDone_Skip(ss, ex, sid) == [sessions |-> ss, expired |-> ex]

\* "Remove session if Done": the store and the log after the check
RetireIfDone(ss, ex, sid) ==
    IF sid \in DOMAIN ss /\ ss[sid].status = "Done"
    THEN [sessions |-> Without(ss, {sid}),
          expired  |-> Append(ex, RetiredEntry(ss[sid]))]
    ELSE [sessions |-> ss, expired |-> ex]

\* a "Done" report for a session that is not live leaves no trace
UpsertSessionPath_IgnoreUnknownDone(sid, data) ==
    LET merged == IF sid \in DOMAIN sessions
                  THEN With(sessions, sid, MergeSession(sessions[sid], data))
                  ELSE With(sessions, sid, NewSession(sid, data))
        after  == IF sid \notin DOMAIN sessions /\ Get(data, "status", "Running") = "Done"
                  THEN [sessions |-> sessions, expired |-> expired]
                  ELSE RetireIfDone(merged, expired, sid)
    IN  [sessions |-> after.sessions,
         expired  |-> after.expired,
         result   |-> [body |-> [ok |-> TRUE, session_id |-> sid,
                                 name |-> IF sid \in DOMAIN after.sessions
                                          THEN after.sessions[sid].name
                                          ELSE Get(data, "name", ""),
                                 active_sessions |-> Cardinality(DOMAIN after.sessions)],
                       code |-> 200]]

UpsertSessionPath(sid, data) ==
    LET merged == IF sid \in DOMAIN sessions
                  THEN With(sessions, sid, MergeSession(sessions[sid], data))
                  ELSE With(sessions, sid, NewSession(sid, data))
        after  == RetireIfDone(merged, expired, sid)
    IN  [sessions |-> after.sessions,
         expired  |-> after.expired,
         result   |-> [body |-> [ok |-> TRUE, session_id |-> sid,
                                 name |-> IF sid \in DOMAIN after.sessions
                                          THEN after.sessions[sid].name
                                          ELSE Get(data, "name", ""),
                                 active_sessions |-> Cardinality(DOMAIN after.sessions)],
                       code |-> 200]]

upsert_session(data) ==
    LET sid == Get(data, "session_id", None) IN
    IF MissingSid(sid)
    THEN [sessions |-> sessions,
          expired  |-> expired,
          result   |-> [body |-> [error |-> "Missing required field: session_id"],
                        code |-> 400]]
    ELSE LET parent_id == Get(data, "parent_id", None) IN
         IF IsThreadReport(parent_id)
         THEN UpsertThread(parent_id, sid, data)
         ELSE UpsertSessionPath(sid, data)

----------------------------------------------------------------------------
(* delete_session *)

\* the pop without the retired entry
delete_session_NoRecord(sid) ==
    IF sid \in DOMAIN sessions
    THEN [sessions |-> Without(sessions, {sid}),
          expired  |-> expired,
          result   |-> [body |-> [ok |-> TRUE, removed |-> sid], code |-> 200]]
    ELSE [sessions |-> sessions,
          expired  |-> expired,
          result   |-> [body |-> [error |-> "Session not found"], code |-> 404]]

\* an unknown id is answered like a known one
delete_session_Idempotent(sid) ==
    IF sid \in DOMAIN sessions
    THEN [sessions |-> Without(sessions, {sid}),
          expired  |-> Append(expired, RetiredEntry(sessions[sid])),
          result   |-> [body |-> [ok |-> TRUE, removed |-> sid], code |-> 200]]
    ELSE [sessions |-> sessions,
          expired  |-> expired,
          result   |-> [body |-> [ok |-> TRUE, removed |-> sid], code |-> 200]]

delete_session(sid) ==
    IF sid \in DOMAIN sessions
    THEN [sessions |-> Without(sessions, {sid}),
          expired  |-> Append(expired, RetiredEntry(sessions[sid])),
          result   |-> [body |-> [ok |-> TRUE, removed |-> sid], code |-> 200]]
    ELSE [sessions |-> sessions,
          expired  |-> expired,
          result   |-> [body |-> [error |-> "Session not found"], code |-> 404]]

----------------------------------------------------------------------------
(* get_sessions_json.  The "sessions" list and each "threads" list are     *)
(* modelled by a function on the ids they list; the order of the lists is  *)
(* the insertion order of the dicts, which the model does not keep.        *)

ThreadView(t) ==
    [thread_id |-> t.thread_id, name |-> t.name, task |-> t.task,
     status |-> t.status, risk |-> t.risk, started |-> t.started,
     last_seen |-> t.last_seen,
     staleness |-> staleness(t.last_seen),
     last_seen_relative |-> relative_time(t.last_seen)]

SessionView(s) ==
    [session_id |-> s.session_id, name |-> s.name, task |-> s.task,
     status |-> s.status, risk |-> s.risk, started |-> s.started,
     last_seen |-> s.last_seen,
     staleness |-> staleness(s.last_seen),
     last_seen_relative |-> relative_time(s.last_seen),
     history |-> s.history,
     threads |-> [tid \in DOMAIN s.threads |-> ThreadView(s.threads[tid])]]

RECURSIVE SumThreads(_, _)
SumThreads(ss, ids) ==
    IF ids = {} THEN 0
    ELSE LET sid == CHOOSE x \in ids : TRUE IN
         Cardinality(DOMAIN ss[sid].threads) + SumThreads(ss, ids \ {sid})

\* the oldest ten retired entries instead of the newest
get_sessions_json_OldestTen ==
    [sessions  |-> [sid \in DOMAIN sessions |-> SessionView(sessions[sid])],
     expired   |-> IF Len(expired) <= 10 THEN expired ELSE SubSeq(expired, 1, 10),
     counts    |-> [sessions |-> Cardinality(DOMAIN sessions),
                    threads  |-> SumThreads(sessions, DOMAIN sessions)],
     timestamp |-> now_iso]

get_sessions_json ==
    [sessions  |-> [sid \in DOMAIN sessions |-> SessionView(sessions[sid])],
     expired   |-> LastN(expired, 10),
     counts    |-> [sessions |-> Cardinality(DOMAIN sessions),
                    threads  |-> SumThreads(sessions, DOMAIN sessions)],
     timestamp |-> now_iso]

----------------------------------------------------------------------------
(* sweeper: one pass of the loop body *)

\* expiry at the window, not past it
SweepThreads_AtLeast(threads) ==
    Without(threads,
            {tid \in DOMAIN threads :
                seconds_since(threads[tid].last_seen) >= EXPIRE_SECONDS})

\* the threads of one session that the pass keeps
SweepThreads(threads) ==
    Without(threads,
            {tid \in DOMAIN threads :
                seconds_since(threads[tid].last_seen) > EXPIRE_SECONDS})

\* silent sessions expire like silent threads
SweepSessions_ExpireIdle(ss) ==
    [sid \in {x \in DOMAIN ss : seconds_since(ss[x].last_seen) <= EXPIRE_SECONDS} |->
        [ss[sid] EXCEPT !.threads = SweepThreads(@)]]

SweepSessions(ss) ==
    [sid \in DOMAIN ss |-> [ss[sid] EXCEPT !.threads = SweepThreads(@)]]

\* the test of the purge comprehension
\* an entry exactly at the window survives
PurgeKeeps_AtMost(e) == seconds_since(Get(e, "expired_at", now_iso)) <= PURGE_SECONDS

PurgeKeeps(e) == seconds_since(Get(e, "expired_at", now_iso)) < PURGE_SECONDS

\* the pass leaves the log as it is
PurgeExpired_KeepAll(ex) == ex

PurgeExpired(ex) == SelectSeq(ex, PurgeKeeps)

----------------------------------------------------------------------------
(* The state machine *)

NoCall == [op |-> "none"]
NoResult == [body |-> <<>>, code |-> 0]

\* a thread that is not in a call
Idle == [pc |-> "idle"]

\* The store as the module leaves it at import: both containers empty.
InitStore ==
    /\ sessions = <<>>
    /\ expired = <<>>
    /\ now = 0
    /\ req = NoCall
    /\ result = NoResult
    /\ lock = None
    /\ running = [p \in Procs |-> Idle]

\* POST /api/session: one call of upsert_session, made while the retired log
\* stays within cap entries
UpsertWithin(data, cap) ==
    LET out == upsert_session(data) IN
    /\ fuel > 0
    /\ Len(out.expired) <= cap
    /\ fuel' = fuel - 1
    /\ sessions' = out.sessions
    /\ expired' = out.expired
    /\ result' = out.result
    /\ req' = [op |-> "upsert", data |-> data]
    /\ UNCHANGED <<now, lock, running>>

Upsert(data) == UpsertWithin(data, MaxExpired)

\* DELETE /api/session/<sid>: one call of delete_session
Delete(sid) ==
    LET out == delete_session(sid) IN
    /\ fuel > 0
    /\ Len(out.expired) <= MaxExpired
    /\ fuel' = fuel - 1
    /\ sessions' = out.sessions
    /\ expired' = out.expired
    /\ result' = out.result
    /\ req' = [op |-> "delete", sid |-> sid]
    /\ UNCHANGED <<now, lock, running>>

\* the read path also purges the retired log
Snapshot_Purging ==
    /\ req' = [op |-> "snapshot"]
    /\ result' = [body |-> get_sessions_json, code |-> 200]
    /\ expired' = PurgeExpired(expired)
    /\ UNCHANGED <<sessions, now, fuel, lock, running>>

\* GET /api/sessions: one call of get_sessions_json
Snapshot ==
    /\ req' = [op |-> "snapshot"]
    /\ result' = [body |-> get_sessions_json, code |-> 200]
    /\ UNCHANGED <<sessions, expired, now, fuel, lock, running>>

\* one pass of the sweeper loop body
Sweep ==
    /\ sessions' = SweepSessions(sessions)
    /\ expired' = PurgeExpired(expired)
    /\ req' = [op |-> "sweep"]
    /\ result' = NoResult
    /\ UNCHANGED <<now, fuel, lock, running>>

\* the wall clock advances
Tick(d) ==
    /\ now + d <= MaxTime
    /\ now' = now + d
    /\ UNCHANGED <<sessions, expired, req, result, fuel, lock, running>>

\* the wall clock advances, up to a horizon
TickWithin(d, horizon) ==
    /\ now + d <= horizon
    /\ now' = now + d
    /\ UNCHANGED <<sessions, expired, req, result, fuel, lock, running>>

Init ==
    /\ InitStore
    /\ fuel = MaxCalls

Next ==
    \/ \E data \in Reports : Upsert(data)
    \/ \E sid \in SessionIds : Delete(sid)
    \/ Snapshot
    \/ Sweep
    \/ \E d \in CoarseTicks : Tick(d)

Spec == Init /\ [][Next]_vars

\* Runs in which one reporter changes its task again and again.
InitHistory ==
    /\ InitStore
    /\ fuel = MaxHistoryCalls

NextHistory ==
    \/ \E data \in HistoryReports : Upsert(data)
    \/ \E sid \in SessionIds : Delete(sid)
    \/ Snapshot
    \/ Sweep
    \/ \E d \in CoarseTicks : Tick(d)

SpecHistory == InitHistory /\ [][NextHistory]_vars

\* Runs in which the clock stops on both sides of the two expiry windows.
NextSweep ==
    \/ \E data \in SweepReports : Upsert(data)
    \/ \E sid \in SessionIds : Delete(sid)
    \/ Snapshot
    \/ Sweep
    \/ \E d \in Ticks : Tick(d)

SpecSweep == Init /\ [][NextSweep]_vars

\* Runs in which the clock stops on both sides of the staleness thresholds.
InitStale ==
    /\ InitStore
    /\ fuel = MaxStaleCalls

NextStale ==
    \/ \E data \in StaleReports : Upsert(data)
    \/ Snapshot
    \/ \E d \in StaleTicks : Tick(d)

SpecStale == InitStale /\ [][NextStale]_vars

\* Runs in which reports carry display names.
NextNames ==
    \/ \E data \in NameReports : Upsert(data)
    \/ \E sid \in SessionIds : Delete(sid)

SpecNames == Init /\ [][NextNames]_vars

\* Runs in which later reports leave out fields that earlier ones set.
NextMerge ==
    \/ \E data \in MergeReports : Upsert(data)
    \/ \E d \in CoarseTicks : Tick(d)

SpecMerge == Init /\ [][NextMerge]_vars

\* Runs in which two sessions have sub-workers of the same id.
InitFrame ==
    /\ InitStore
    /\ fuel = MaxFrameCalls

NextFrame ==
    \/ \E data \in FrameReports : Upsert(data)
    \/ \E d \in CoarseTicks : Tick(d)

SpecFrame == InitFrame /\ [][NextFrame]_vars

\* Runs of the sweeper and the snapshot over a store whose timestamps may
\* be strings that datetime.fromisoformat rejects.
Garbled == [text |-> "garbled"]

StoredStamps == {[utc |-> 0], Garbled}

GarbledThread(tid, stamp) ==
    [thread_id |-> tid, name |-> tid, task |-> "", status |-> "Running",
     risk |-> "-", started |-> [utc |-> 0], last_seen |-> stamp]

GarbledEntries ==
    {[name |-> "session-2", last_task |-> "build", expired_at |-> stamp] :
        stamp \in StoredStamps}
    \cup {[name |-> "session-2", last_task |-> "build"]}

InitGarbled ==
    /\ \E s1 \in StoredStamps, t1 \in StoredStamps, t2 \in StoredStamps :
          sessions = [sid \in {"s1"} |->
                        [session_id |-> "s1", name |-> "session-1",
                         task |-> "Session started", status |-> "Running",
                         risk |-> "-", started |-> [utc |-> 0],
                         last_seen |-> s1, history |-> <<>>,
                         threads |-> [tid \in {"t1", "t2"} |->
                                        GarbledThread(tid, IF tid = "t1" THEN t1 ELSE t2)]]]
    /\ \E e1 \in GarbledEntries, e2 \in GarbledEntries : expired = <<e1, e2>>
    /\ now = 0
    /\ req = NoCall
    /\ result = NoResult
    /\ lock = None
    /\ running = [p \in Procs |-> Idle]
    /\ fuel = 0

NextGarbled ==
    \/ Snapshot
    \/ Sweep
    \/ \E d \in Ticks : Tick(d)

SpecGarbled == InitGarbled /\ [][NextGarbled]_vars

\* Runs in which the sweeper keeps making its passes and the clock keeps
\* advancing, for as long as the horizon allows.
TimePasses == \E d \in PeriodicTicks : TickWithin(d, MaxPeriodicTime)

NextPeriodic ==
    \/ \E data \in PeriodicReports : Upsert(data)
    \/ Sweep
    \/ TimePasses

SpecPeriodic ==
    Init /\ [][NextPeriodic]_vars /\ WF_vars(Sweep) /\ WF_vars(TimePasses)

\* Runs in which more sessions retire than a snapshot shows.
InitRetire ==
    /\ InitStore
    /\ fuel = MaxRetireCalls

NextRetire ==
    \/ \E data \in RetireReports : UpsertWithin(data, MaxRetired)
    \/ Snapshot

SpecRetire == InitRetire /\ [][NextRetire]_vars

----------------------------------------------------------------------------
(* The operations as threads.  ThreadingHTTPServer runs every request on   *)
(* a thread of its own and main starts the sweeper thread.  A thread takes *)
(* the lock, runs the statements of its "with lock" block one after the    *)
(* other and releases the lock when it leaves the block.                   *)

\* the thread is inside a "with lock" block
Holds(p) == running[p].pc \notin {"idle", "acquire"}

\* the thread has a call to make and stands before the "with lock"
Enter(p, op, arg) ==
    running' = [running EXCEPT ![p] = [pc |-> "acquire", op |-> op, arg |-> arg,
                                       local |-> None, alone |-> None]]

Goto(p, pc) == running' = [running EXCEPT ![p].pc = pc]

\* the call as the log of requests records it
CallOf(c) ==
    CASE c.op = "upsert"   -> [op |-> "upsert", data |-> c.arg]
      [] c.op = "delete"   -> [op |-> "delete", sid |-> c.arg]
      [] c.op = "snapshot" -> [op |-> "snapshot"]
      [] c.op = "sweep"    -> [op |-> "sweep"]

\* what the call leaves and returns when it runs from the present store with
\* nothing else running
Alone(c) ==
    CASE c.op = "upsert"   -> upsert_session(c.arg)
      [] c.op = "delete"   -> delete_session(c.arg)
      [] c.op = "snapshot" -> [sessions |-> sessions, expired |-> expired,
                               result |-> [body |-> get_sessions_json, code |-> 200]]
      [] c.op = "sweep"    -> [sessions |-> SweepSessions(sessions),
                               expired |-> PurgeExpired(expired),
                               result |-> NoResult]

FirstStatement(op) ==
    CASE op = "upsert"   -> "merge"
      [] op = "delete"   -> "pop"
      [] op = "snapshot" -> "list"
      [] op = "sweep"    -> "threads"

\* upsert_session up to the "with lock"
CallUpsert(p, data) ==
    /\ running[p].pc = "idle"
    /\ fuel > 0
    /\ fuel' = fuel - 1
    /\ IF MissingSid(Get(data, "session_id", None))
       THEN /\ req' = [op |-> "upsert", data |-> data]
            /\ result' = [body |-> [error |-> "Missing required field: session_id"],
                          code |-> 400]
            /\ UNCHANGED running
       ELSE /\ Enter(p, "upsert", data)
            /\ UNCHANGED <<req, result>>
    /\ UNCHANGED <<sessions, expired, now, lock>>

CallDelete(p, sid) ==
    /\ running[p].pc = "idle"
    /\ fuel > 0
    /\ fuel' = fuel - 1
    /\ Enter(p, "delete", sid)
    /\ UNCHANGED <<sessions, expired, now, req, result, lock>>

CallSnapshot(p) ==
    /\ running[p].pc = "idle"
    /\ Enter(p, "snapshot", None)
    /\ UNCHANGED <<sessions, expired, now, req, result, fuel, lock>>

\* time.sleep(30) returns
SweeperWakes ==
    /\ running["sweeper"].pc = "idle"
    /\ Enter("sweeper", "sweep", None)
    /\ UNCHANGED <<sessions, expired, now, req, result, fuel, lock>>

\* a thread enters its block without waiting for the lock to be free
Acquire_NoWait(p) ==
    /\ running[p].pc = "acquire"
    /\ lock' = p
    /\ running' = [running EXCEPT ![p].pc = FirstStatement(running[p].op),
                                  ![p].alone = Alone(running[p])]
    /\ UNCHANGED <<sessions, expired, now, req, result, fuel>>

\* "with lock:", entered
Acquire(p) ==
    /\ running[p].pc = "acquire"
    /\ lock = None
    /\ lock' = p
    /\ running' = [running EXCEPT ![p].pc = FirstStatement(running[p].op),
                                  ![p].alone = Alone(running[p])]
    /\ UNCHANGED <<sessions, expired, now, req, result, fuel>>

\* a return that leaves the lock taken
Return_KeepLock(p, body, code) ==
    /\ result' = [body |-> body, code |-> code]
    /\ req' = CallOf(running[p])
    /\ lock' = lock
    /\ running' = [running EXCEPT ![p] = Idle]

\* a return statement inside the block: the value goes to the caller and the
\* lock is released
Return(p, body, code) ==
    /\ result' = [body |-> body, code |-> code]
    /\ req' = CallOf(running[p])
    /\ lock' = None
    /\ running' = [running EXCEPT ![p] = Idle]

\* the thread or session update
UpsertMerge(p) ==
    LET data      == running[p].arg
        sid       == Get(data, "session_id", None)
        parent_id == Get(data, "parent_id", None)
        tid       == Get(data, "thread_id", sid)
    IN  /\ running[p].pc = "merge"
        /\ IF IsThreadReport(parent_id)
           THEN /\ sessions' =
                      [sessions EXCEPT ![parent_id].threads =
                          IF tid \in DOMAIN @
                          THEN With(@, tid, MergeThread(@[tid], data))
                          ELSE With(@, tid, NewThread(tid, data))]
                /\ Goto(p, "clean")
           ELSE /\ sessions' =
                      IF sid \in DOMAIN sessions
                      THEN With(sessions, sid, MergeSession(sessions[sid], data))
                      ELSE With(sessions, sid, NewSession(sid, data))
                /\ Goto(p, "retire")
        /\ UNCHANGED <<expired, now, req, result, fuel, lock>>

\* "Clean up done threads"; parent is the object fetched before the update
UpsertClean(p) ==
    LET parent_id == running[p].arg["parent_id"] IN
    /\ running[p].pc = "clean"
    /\ sessions' = IF parent_id \in DOMAIN sessions
                   THEN [sessions EXCEPT ![parent_id].threads = CleanDoneThreads(@)]
                   ELSE sessions
    /\ Goto(p, "return_thread")
    /\ UNCHANGED <<expired, now, req, result, fuel, lock>>

UpsertReturnThread(p) ==
    LET data == running[p].arg IN
    /\ running[p].pc = "return_thread"
    /\ Return(p, [ok |-> TRUE, session_id |-> data["parent_id"],
                  thread_id |-> Get(data, "thread_id", data["session_id"]),
                  active_sessions |-> Cardinality(DOMAIN sessions)], 200)
    /\ UNCHANGED <<sessions, expired, now, fuel>>

\* "Remove session if Done"
UpsertRetire(p) ==
    LET after == RetireIfDone(sessions, expired, running[p].arg["session_id"]) IN
    /\ running[p].pc = "retire"
    /\ sessions' = after.sessions
    /\ expired' = after.expired
    /\ Goto(p, "return_session")
    /\ UNCHANGED <<now, req, result, fuel, lock>>

UpsertReturnSession(p) ==
    LET data == running[p].arg
        sid  == data["session_id"]
    IN  /\ running[p].pc = "return_session"
        /\ Return(p, [ok |-> TRUE, session_id |-> sid,
                      name |-> IF sid \in DOMAIN sessions THEN sessions[sid].name
                               ELSE Get(data, "name", ""),
                      active_sessions |-> Cardinality(DOMAIN sessions)], 200)
        /\ UNCHANGED <<sessions, expired, now, fuel>>

\* s = sessions.pop(sid), or the 404
DeletePop(p) ==
    LET sid == running[p].arg IN
    /\ running[p].pc = "pop"
    /\ IF sid \in DOMAIN sessions
       THEN /\ sessions' = Without(sessions, {sid})
            /\ running' = [running EXCEPT ![p].pc = "record",
                                          ![p].local = sessions[sid]]
            /\ UNCHANGED <<req, result, lock>>
       ELSE /\ Return(p, [error |-> "Session not found"], 404)
            /\ UNCHANGED sessions
    /\ UNCHANGED <<expired, now, fuel>>

\* expired.append(...) and the 200
DeleteRecord(p) ==
    /\ running[p].pc = "record"
    /\ expired' = Append(expired, RetiredEntry(running[p].local))
    /\ Return(p, [ok |-> TRUE, removed |-> running[p].arg], 200)
    /\ UNCHANGED <<sessions, now, fuel>>

\* the loop over sessions.values() that fills result
SnapshotList(p) ==
    /\ running[p].pc = "list"
    /\ running' = [running EXCEPT
                      ![p].pc = "total",
                      ![p].local = [sid \in DOMAIN sessions |-> SessionView(sessions[sid])]]
    /\ UNCHANGED <<sessions, expired, now, req, result, fuel, lock>>

\* total_threads and the returned dict
SnapshotTotal(p) ==
    /\ running[p].pc = "total"
    /\ Return(p, [sessions  |-> running[p].local,
                  expired   |-> LastN(expired, 10),
                  counts    |-> [sessions |-> Cardinality(DOMAIN sessions),
                                 threads  |-> SumThreads(sessions, DOMAIN sessions)],
                  timestamp |-> now_iso], 200)
    /\ UNCHANGED <<sessions, expired, now, fuel>>

\* the loop over sessions.items() that drops silent threads
SweepDropThreads(p) ==
    /\ running[p].pc = "threads"
    /\ sessions' = SweepSessions(sessions)
    /\ Goto(p, "purge")
    /\ UNCHANGED <<expired, now, req, result, fuel, lock>>

\* expired[:] = [...], the end of the block
SweepPurge(p) ==
    /\ running[p].pc = "purge"
    /\ expired' = PurgeExpired(expired)
    /\ Return(p, NoResult.body, NoResult.code)
    /\ UNCHANGED <<sessions, now, fuel>>

\* the clock is coarser than a block is long: it advances between blocks
TickUnlocked(d) ==
    /\ lock = None
    /\ Tick(d)

InitLock ==
    /\ InitStore
    /\ fuel = MaxLockCalls

NextLock ==
    \/ \E p \in Callers : \E data \in LockReports : CallUpsert(p, data)
    \/ \E p \in Callers : CallDelete(p, "s1")
    \/ \E p \in Callers : CallSnapshot(p)
    \/ SweeperWakes
    \/ \E p \in Procs : Acquire(p)
    \/ \E p \in Procs : UpsertMerge(p)
    \/ \E p \in Procs : UpsertClean(p)
    \/ \E p \in Procs : UpsertReturnThread(p)
    \/ \E p \in Procs : UpsertRetire(p)
    \/ \E p \in Procs : UpsertReturnSession(p)
    \/ \E p \in Procs : DeletePop(p)
    \/ \E p \in Procs : DeleteRecord(p)
    \/ \E p \in Procs : SnapshotList(p)
    \/ \E p \in Procs : SnapshotTotal(p)
    \/ \E p \in Procs : SweepDropThreads(p)
    \/ \E p \in Procs : SweepPurge(p)
    \/ \E d \in CoarseTicks : TickUnlocked(d)

SpecLock == InitLock /\ [][NextLock]_vars

\* the statements of p inside its block
InBlock(p) ==
    \/ UpsertMerge(p) \/ UpsertClean(p) \/ UpsertReturnThread(p)
    \/ UpsertRetire(p) \/ UpsertReturnSession(p)
    \/ DeletePop(p) \/ DeleteRecord(p)
    \/ SnapshotList(p) \/ SnapshotTotal(p)
    \/ SweepDropThreads(p) \/ SweepPurge(p)

\* Every thread keeps running, and a thread that waits for the lock while it
\* is freed again and again gets it.
FairThreads ==
    \A p \in Procs : WF_vars(InBlock(p)) /\ SF_vars(Acquire(p))

InitFair ==
    /\ InitStore
    /\ fuel = MaxFairCalls

\* the threads of SpecLock with the clock standing still
NextFair ==
    \/ \E p \in Callers : \E data \in LockReports : CallUpsert(p, data)
    \/ \E p \in Callers : CallDelete(p, "s1")
    \/ \E p \in Callers : CallSnapshot(p)
    \/ SweeperWakes
    \/ \E p \in Procs : Acquire(p)
    \/ \E p \in Procs : InBlock(p)

FairLock == InitFair /\ [][NextFair]_vars /\ FairThreads

----------------------------------------------------------------------------
(* Steps, recognised from the pair of states *)

UpsertStep == fuel' = fuel - 1 /\ req'.op = "upsert"
DeleteStep == fuel' = fuel - 1 /\ req'.op = "delete"
SweepStep == fuel' = fuel /\ now' = now /\ req'.op = "sweep"
SnapshotStep == fuel' = fuel /\ now' = now /\ req'.op = "snapshot"

Has(data, key) == key \in DOMAIN data

\* the report names the session sid
NamesSession(data, sid) == Has(data, "session_id") /\ data["session_id"] = sid

\* the report names a parent that is live
ParentIsLive(data) == Has(data, "parent_id") /\ data["parent_id"] \in DOMAIN sessions

\* this step is an upsert for sid that takes the session-report path
SessionPathStep(sid) ==
    UpsertStep /\ NamesSession(req'.data, sid) /\ ~ParentIsLive(req'.data)

\* this step is an upsert that takes the thread-report path under pid
ThreadPathStep(pid) ==
    /\ UpsertStep
    /\ Has(req'.data, "session_id") /\ req'.data["session_id"] \in SessionIds
    /\ Has(req'.data, "parent_id") /\ req'.data["parent_id"] = pid
    /\ pid \in DOMAIN sessions

\* what a session report for sid leaves as status, task and display name
ResultingStatus(sid, data) ==
    IF Has(data, "status") THEN data["status"]
    ELSE IF sid \in DOMAIN sessions THEN sessions[sid].status ELSE "Running"

FinalTask(sid, data) ==
    IF Has(data, "task") THEN data["task"]
    ELSE IF sid \in DOMAIN sessions THEN sessions[sid].task ELSE "Session started"

DisplayName(sid, data) ==
    IF sid \in DOMAIN sessions THEN sessions[sid].name
    ELSE IF Has(data, "name") THEN data["name"]
    ELSE "session-" \o ToString(Cardinality(DOMAIN sessions) + 1)

\* the thread a thread report is about, and the status the report leaves it
ReportedThread(data) ==
    IF Has(data, "thread_id") THEN data["thread_id"] ELSE data["session_id"]

ThreadResultingStatus(pid, data) ==
    IF Has(data, "status") THEN data["status"]
    ELSE IF ReportedThread(data) \in DOMAIN sessions[pid].threads
         THEN sessions[pid].threads[ReportedThread(data)].status
         ELSE "Running"

Last(s) == s[Len(s)]

AgeOf(iso) == now - iso.utc

----------------------------------------------------------------------------
(* C1 *)

\* C1: in every reachable state, whatever upserts, deletes and sweeps came
\* before, the history of every live session has at most 5 entries.
C1_HistoryBounded ==
    \A sid \in DOMAIN sessions : Len(sessions[sid].history) <= 5

\* a full history after more task changes than it can hold
C1_Witness ==
    /\ MaxHistoryCalls - fuel >= 7
    /\ req.op = "upsert"
    /\ "s1" \in DOMAIN sessions
    /\ Len(sessions["s1"].history) = 5
    /\ Has(req.data, "task")
    /\ sessions["s1"].task = req.data["task"]
    /\ Last(sessions["s1"].history) # sessions["s1"].task

----------------------------------------------------------------------------
(* C2 *)

\* C2: the history of a session that stays live changes only in a step that
\* is a session-path upsert to that session carrying a task different from
\* the stored one; every other step (same task, no task, thread report,
\* delete of another session, sweep, snapshot, clock) leaves it as it is.
C2_HistoryChangesOnlyOnTaskChange ==
    [][\A sid \in (DOMAIN sessions) \cap (DOMAIN sessions') :
          sessions'[sid].history # sessions[sid].history =>
              /\ SessionPathStep(sid)
              /\ Has(req'.data, "task")
              /\ req'.data["task"] # sessions[sid].task]_vars

\* a session that got its task repeated after a change: one entry only
C2_Witness ==
    /\ fuel = 0
    /\ req.op = "upsert"
    /\ "s1" \in DOMAIN sessions
    /\ NamesSession(req.data, "s1")
    /\ ~Has(req.data, "parent_id")
    /\ Has(req.data, "task")
    /\ sessions["s1"].task = req.data["task"]
    /\ sessions["s1"].history = <<"Session started">>
    /\ sessions["s1"].started.utc < sessions["s1"].last_seen.utc

----------------------------------------------------------------------------
(* C3 *)

\* C3: a session-path upsert whose resulting status is "Done" leaves the
\* session out of the live store, and the last retired entry carries the
\* session's display name and the task as it is after this upsert's merge.
C3_DoneRetiresSession ==
    [][\A sid \in SessionIds :
          (SessionPathStep(sid) /\ ResultingStatus(sid, req'.data) = "Done") =>
              /\ sid \notin DOMAIN sessions'
              /\ Len(expired') = Len(expired) + 1
              /\ Last(expired').name = DisplayName(sid, req'.data)
              /\ Last(expired').last_task = FinalTask(sid, req'.data)]_vars

\* a Done report that carries a task has retired s1, the second session
C3_Witness ==
    /\ req.op = "upsert"
    /\ NamesSession(req.data, "s1")
    /\ ~Has(req.data, "parent_id")
    /\ Has(req.data, "status") /\ req.data["status"] = "Done"
    /\ Has(req.data, "task")
    /\ "s1" \notin DOMAIN sessions
    /\ "s2" \in DOMAIN sessions
    /\ Len(expired) = 1
    /\ Last(expired).last_task = req.data["task"]
    /\ Last(expired).name = "session-2"

----------------------------------------------------------------------------
(* C4 *)

\* C4: a thread report that leaves the thread's status "Done", for a thread
\* that existed or one the report creates, leaves that thread out of its
\* parent's thread mapping in the state right after the upsert.
C4_DoneThreadRemoved ==
    [][\A pid \in SessionIds :
          (ThreadPathStep(pid) /\ ThreadResultingStatus(pid, req'.data) = "Done") =>
              /\ pid \in DOMAIN sessions'
              /\ ReportedThread(req'.data) \notin DOMAIN sessions'[pid].threads]_vars

\* a Done report for a thread, by a reporter whose earlier thread is live
C4_Witness ==
    /\ req.op = "upsert"
    /\ result.code = 200
    /\ Has(result.body, "thread_id")
    /\ Has(req.data, "status") /\ req.data["status"] = "Done"
    /\ "s1" \in DOMAIN sessions
    /\ result.body.session_id = "s1"
    /\ result.body.thread_id = "t1"
    /\ DOMAIN sessions["s1"].threads = {"s2"}

----------------------------------------------------------------------------
(* C5 *)

\* C5: a session leaves the live store only in a step that is a session-path
\* upsert for its id with resulting status "Done" or a delete of its id;
\* no sweep, thread report, snapshot, other upsert or clock step removes it.
C5_SessionLeavesOnlyByDoneOrDelete ==
    [][\A sid \in DOMAIN sessions :
          sid \notin DOMAIN sessions' =>
              \/ SessionPathStep(sid) /\ ResultingStatus(sid, req'.data) = "Done"
              \/ DeleteStep /\ req'.sid = sid]_vars

\* a session silent for more than 600 s, live after a sweep pass
C5_Witness ==
    /\ req.op = "sweep"
    /\ \E sid \in DOMAIN sessions : AgeOf(sessions[sid].last_seen) > 600

----------------------------------------------------------------------------
(* C6 *)

\* C6: one sweep pass keeps the set of live sessions, and in each of them
\* removes exactly the threads whose age is more than 600 s, whatever their
\* status; each thread of age at most 600 s is still there, unchanged.
C6_SweepRemovesExactlyExpiredThreads ==
    [][SweepStep =>
          /\ DOMAIN sessions' = DOMAIN sessions
          /\ \A sid \in DOMAIN sessions :
                /\ DOMAIN sessions'[sid].threads =
                      {tid \in DOMAIN sessions[sid].threads :
                          AgeOf(sessions[sid].threads[tid].last_seen) <= 600}
                /\ \A tid \in DOMAIN sessions'[sid].threads :
                      sessions'[sid].threads[tid] = sessions[sid].threads[tid]]_vars

\* after a pass: a thread of age exactly 600 s is still listed
C6_Witness ==
    /\ req.op = "sweep"
    /\ \E sid \in DOMAIN sessions : \E tid \in DOMAIN sessions[sid].threads :
          AgeOf(sessions[sid].threads[tid].last_seen) = 600

----------------------------------------------------------------------------
(* C7 *)

\* C7: an upsert whose report has no session_id, absent or empty, answers
\* 400 and leaves sessions (threads and histories included) and the retired
\* log as they were, also when its parent_id names a live session.
C7_MissingSidRejected ==
    [][(UpsertStep /\ (~Has(req'.data, "session_id") \/ req'.data["session_id"] = "")) =>
          /\ result'.code = 400
          /\ sessions' = sessions
          /\ expired' = expired]_vars

\* a rejected report with an empty session_id and a live parent
C7_Witness ==
    /\ req.op = "upsert"
    /\ result.code = 400
    /\ Has(req.data, "session_id")
    /\ Has(req.data, "parent_id")
    /\ req.data["parent_id"] \in DOMAIN sessions

----------------------------------------------------------------------------
(* C8 *)

\* C8: delete of an id that is not live answers 404 and leaves the live
\* sessions and the retired log as they were, also for an id retired before.
C8_DeleteUnknown ==
    [][(DeleteStep /\ req'.sid \notin DOMAIN sessions) =>
          /\ result'.code = 404
          /\ sessions' = sessions
          /\ expired' = expired]_vars

\* a second delete, after the only session ever created was deleted
C8_Witness ==
    /\ req.op = "delete"
    /\ result.code = 404
    /\ fuel = 0
    /\ sessions = <<>>
    /\ Len(expired) = 1
    /\ expired[1].name = "session-1"
    /\ expired[1].last_task = "Session started"

----------------------------------------------------------------------------
(* C9 *)

\* C9: delete of a live session removes it with all its threads, appends
\* exactly one retired entry with its display name and current task,
\* leaves every other session as it was, and returns the removed id.
C9_DeleteLive ==
    [][\A sid \in DOMAIN sessions :
          (DeleteStep /\ req'.sid = sid) =>
              /\ DOMAIN sessions' = (DOMAIN sessions) \ {sid}
              /\ \A other \in DOMAIN sessions' : sessions'[other] = sessions[other]
              /\ Len(expired') = Len(expired) + 1
              /\ SubSeq(expired', 1, Len(expired)) = expired
              /\ Last(expired').name = sessions[sid].name
              /\ Last(expired').last_task = sessions[sid].task
              /\ result'.code = 200
              /\ result'.body.removed = sid]_vars

\* a delete answered 200 for the first of two sessions; the other stays live
C9_Witness ==
    /\ req.op = "delete"
    /\ result.code = 200
    /\ result.body.removed = "s1"
    /\ "s1" \notin DOMAIN sessions
    /\ "s2" \in DOMAIN sessions
    /\ sessions["s2"].name = "session-2"
    /\ Len(expired) = 1
    /\ expired[1].name = "session-1"

----------------------------------------------------------------------------
(* C10 *)

\* the entries of ex younger than 300 s, in the order of ex
RECURSIVE YoungerThanWindow(_)
YoungerThanWindow(ex) ==
    IF ex = <<>> THEN <<>>
    ELSE IF AgeOf(Head(ex).expired_at) < 300
         THEN <<Head(ex)>> \o YoungerThanWindow(Tail(ex))
         ELSE YoungerThanWindow(Tail(ex))

\* C10: after one sweep pass the retired log holds exactly its former
\* entries of age less than 300 s, in their former order.
C10_PurgeKeepsYoungEntries ==
    [][SweepStep => expired' = YoungerThanWindow(expired)]_vars

\* after a pass that followed two calls: one entry, of age 299 s, is left
C10_Witness ==
    /\ req.op = "sweep"
    /\ fuel = MaxCalls - 2
    /\ Len(expired) = 1
    /\ AgeOf(expired[1].expired_at) = 299

----------------------------------------------------------------------------
(* C11 *)

\* the last five entries of a list
LastFive(s) == IF Len(s) <= 5 THEN s ELSE SubSeq(s, Len(s) - 4, Len(s))

\* C11: after a session-path upsert to a live session that carries a task
\* different from the stored one (and leaves the session live), the history
\* is the last 5 entries of the former history followed by the former task,
\* and the task is the reported one.
C11_HistoryIsLastFivePreviousTasks ==
    [][\A sid \in (DOMAIN sessions) \cap (DOMAIN sessions') :
          (/\ SessionPathStep(sid)
           /\ Has(req'.data, "task")
           /\ req'.data["task"] # sessions[sid].task) =>
              /\ sessions'[sid].history =
                    LastFive(Append(sessions[sid].history, sessions[sid].task))
              /\ sessions'[sid].task = req'.data["task"]]_vars

\* seven task reports, "build" first: the first "build" has been dropped
C11_Witness ==
    /\ fuel = MaxHistoryCalls - 7
    /\ now = 0
    /\ expired = <<>>
    /\ req.op = "upsert"
    /\ "s1" \in DOMAIN sessions
    /\ sessions["s1"].task = "build"
    /\ sessions["s1"].history = <<"test", "build", "test", "build", "test">>

----------------------------------------------------------------------------
(* C12 *)

\* the tier the claim gives to an age ("ok" is the code's tag of "fresh")
TierOfAge(age) ==
    IF age < 60 THEN "ok" ELSE IF age < 180 THEN "warning" ELSE "idle"

\* the age a snapshot saw for a listed session or thread
ViewAge(view) == result.body.timestamp.utc - view.last_seen.utc

TierIsRight(view) ==
    /\ view.staleness = TierOfAge(ViewAge(view))
    /\ ViewAge(view) \in {0, 59} => view.staleness = "ok"
    /\ ViewAge(view) \in {60, 179} => view.staleness = "warning"
    /\ ViewAge(view) = 180 => view.staleness = "idle"

\* C12: in every snapshot the staleness of each session and of each thread
\* is the tier of its age in seconds: fresh below 60, warning from 60 to
\* below 180, idle from 180 on; so 0 and 59 are fresh, 60 and 179 warning,
\* 180 idle.
C12_StalenessTiers ==
    req.op = "snapshot" =>
        \A sid \in DOMAIN result.body.sessions :
            /\ TierIsRight(result.body.sessions[sid])
            /\ \A tid \in DOMAIN result.body.sessions[sid].threads :
                  TierIsRight(result.body.sessions[sid].threads[tid])

\* a snapshot that lists a session of age 180 and a thread of age 60
C12_Witness ==
    /\ req.op = "snapshot"
    /\ \E sid \in DOMAIN result.body.sessions :
          /\ ViewAge(result.body.sessions[sid]) = 180
          /\ result.body.sessions[sid].staleness = "idle"
          /\ \E tid \in DOMAIN result.body.sessions[sid].threads :
                /\ ViewAge(result.body.sessions[sid].threads[tid]) = 60
                /\ result.body.sessions[sid].threads[tid].staleness = "warning"

----------------------------------------------------------------------------
(* C13 *)

\* C13: a snapshot leaves the live sessions (threads and histories included)
\* and the retired log as they were, and a snapshot taken again in the state
\* it leaves, with the clock where it was, returns the same view.
C13_SnapshotReadOnly ==
    [][SnapshotStep =>
          /\ sessions' = sessions
          /\ expired' = expired
          /\ get_sessions_json' = result'.body]_vars

\* a snapshot of a store with a session, a thread and a retired entry
C13_Witness ==
    /\ req.op = "snapshot"
    /\ result.code = 200
    /\ result.body.timestamp = now_iso
    /\ expired # <<>>
    /\ result.body.expired = expired
    /\ \E sid \in DOMAIN sessions :
          /\ sessions[sid].threads # <<>>
          /\ sid \in DOMAIN result.body.sessions

----------------------------------------------------------------------------
(* C14 *)

Min(a, b) == IF a <= b THEN a ELSE b

\* threads listed in a snapshot body, summed over the listed sessions
RECURSIVE ListedThreads(_, _)
ListedThreads(listed, ids) ==
    IF ids = {} THEN 0
    ELSE LET sid == CHOOSE x \in ids : TRUE IN
         Cardinality(DOMAIN listed[sid].threads) + ListedThreads(listed, ids \ {sid})

\* C14: a snapshot lists every live session with every one of its threads,
\* its expired list is the last min(10, n) entries of the n-entry retired log
\* in insertion order, counts.sessions is the number of sessions listed and
\* counts.threads is the sum of the lengths of the listed thread lists.
C14_SnapshotContents ==
    req.op = "snapshot" =>
        LET body == result.body
            n == Len(expired)
            k == Min(10, n)
        IN  /\ DOMAIN body.sessions = DOMAIN sessions
            /\ \A sid \in DOMAIN sessions :
                  /\ body.sessions[sid].session_id = sid
                  /\ DOMAIN body.sessions[sid].threads = DOMAIN sessions[sid].threads
                  /\ \A tid \in DOMAIN sessions[sid].threads :
                        body.sessions[sid].threads[tid].thread_id = tid
            /\ Len(body.expired) = k
            /\ \A i \in 1..k : body.expired[i] = expired[n - k + i]
            /\ body.counts.sessions = Cardinality(DOMAIN body.sessions)
            /\ body.counts.threads = ListedThreads(body.sessions, DOMAIN body.sessions)

\* a snapshot of a session with a thread and an eleven-entry log whose
\* oldest entry differs from the ten shown
C14_Witness ==
    /\ req.op = "snapshot"
    /\ Len(expired) = 11
    /\ Len(result.body.expired) = 10
    /\ expired[1] # expired[11]
    /\ result.body.counts.sessions = 1
    /\ result.body.counts.threads = 1

----------------------------------------------------------------------------
(* C16 *)

\* C16: a session-path upsert returns the session's display name when the
\* session is live after the transition, and the empty name when the session
\* no longer exists after it, whatever name the report carried.
C16_ReturnedName ==
    [][\A sid \in SessionIds :
          SessionPathStep(sid) =>
              result'.body.name = IF sid \in DOMAIN sessions'
                                  THEN sessions'[sid].name
                                  ELSE ""]_vars

----------------------------------------------------------------------------
(* C17 *)

MergedFields == {"name", "task", "status", "risk"}

\* every field the report provides is the stored field of the entity
Overwritten(entity, data) ==
    \A f \in MergedFields : Has(data, f) => entity[f] = data[f]

\* C17: an upsert for an existing session or an existing thread overwrites
\* every field the report provides, the display name included: after a report
\* carrying a name, the stored name of that session or thread is that name.
C17_ProvidedFieldsOverwrite ==
    [][/\ \A sid \in (DOMAIN sessions) \cap (DOMAIN sessions') :
             SessionPathStep(sid) => Overwritten(sessions'[sid], req'.data)
       /\ \A pid \in (DOMAIN sessions) \cap (DOMAIN sessions') :
             (/\ ThreadPathStep(pid)
              /\ ReportedThread(req'.data) \in DOMAIN sessions[pid].threads
              /\ ReportedThread(req'.data) \in DOMAIN sessions'[pid].threads) =>
                 Overwritten(sessions'[pid].threads[ReportedThread(req'.data)],
                             req'.data)]_vars

----------------------------------------------------------------------------
(* C18 *)

\* this step is a thread report under pid for a thread pid does not have yet
NewThreadStep(pid) ==
    /\ ThreadPathStep(pid)
    /\ ReportedThread(req'.data) \notin DOMAIN sessions[pid].threads

\* after the step, pid has the thread of the report next to the threads it
\* had, with the reported fields and the defaults for the others
OneThreadCreated(pid) ==
    LET data == req'.data
        tid  == ReportedThread(data)
    IN  /\ pid \in DOMAIN sessions'
        /\ DOMAIN sessions'[pid].threads = DOMAIN sessions[pid].threads \cup {tid}
        /\ \A other \in DOMAIN sessions[pid].threads :
              sessions'[pid].threads[other] = sessions[pid].threads[other]
        /\ sessions'[pid].threads[tid].thread_id = tid
        /\ sessions'[pid].threads[tid].task = Get(data, "task", "")
        /\ sessions'[pid].threads[tid].name = Get(data, "name", tid)
        /\ sessions'[pid].threads[tid].status = Get(data, "status", "Running")
        /\ sessions'[pid].threads[tid].risk = Get(data, "risk", "-")

\* C18 as stated: a thread report for a pair not yet known under a live parent
\* creates exactly one thread under that parent, with the reported task, name
\* defaulting to the thread id (itself defaulting to the report's session_id),
\* status defaulting to "Running" and risk to "-", and no top-level session.
C18_ThreadCreated ==
    [][\A pid \in DOMAIN sessions :
          NewThreadStep(pid) =>
              /\ DOMAIN sessions' = DOMAIN sessions
              /\ OneThreadCreated(pid)]_vars

\* C18, amended: the same, unless the report's status is "Done"; then the
\* thread is removed in the same call and the parent's threads are as before.
C18_ThreadCreatedUnlessDone ==
    [][\A pid \in DOMAIN sessions :
          NewThreadStep(pid) =>
              /\ DOMAIN sessions' = DOMAIN sessions
              /\ IF Get(req'.data, "status", "Running") = "Done"
                 THEN sessions'[pid].threads = sessions[pid].threads
                 ELSE OneThreadCreated(pid)]_vars

\* upsert(session_id s1) then upsert(session_id s2, parent_id s1, task build):
\* s1 has the one thread s2, running the task, and there is no session s2
C18_Witness ==
    /\ req.op = "upsert"
    /\ req.data = [session_id |-> "s2", parent_id |-> "s1", task |-> "build"]
    /\ DOMAIN sessions = {"s1"}
    /\ DOMAIN sessions["s1"].threads = {"s2"}
    /\ sessions["s1"].threads["s2"].task = "build"
    /\ sessions["s1"].threads["s2"].status = "Running"
    /\ sessions["s1"].threads["s2"].name = "s2"
    /\ result.body.thread_id = "s2"

----------------------------------------------------------------------------
(* C19 *)

\* the step answered as the thread-report path does, for a thread of pid, and
\* changed nothing of the store but the threads of pid
TookThreadPath(pid) ==
    /\ Has(result'.body, "thread_id") /\ ~Has(result'.body, "name")
    /\ result'.body.session_id = pid
    /\ result'.body.thread_id = ReportedThread(req'.data)
    /\ DOMAIN sessions' = DOMAIN sessions
    /\ expired' = expired
    /\ \A other \in DOMAIN sessions \ {pid} : sessions'[other] = sessions[other]
    /\ [sessions'[pid] EXCEPT !.threads = <<>>] = [sessions[pid] EXCEPT !.threads = <<>>]

\* the step answered as the session-report path does, created or updated the
\* session sid (retiring it when its status came out as "Done") and left the
\* threads of every session as they were
TookSessionPath(sid) ==
    /\ Has(result'.body, "name") /\ ~Has(result'.body, "thread_id")
    /\ result'.body.session_id = sid
    /\ IF ResultingStatus(sid, req'.data) = "Done"
       THEN sid \notin DOMAIN sessions' /\ Len(expired') = Len(expired) + 1
       ELSE sid \in DOMAIN sessions' /\ sessions'[sid].last_seen = now_iso
    /\ DOMAIN sessions' \ {sid} = DOMAIN sessions \ {sid}
    /\ \A s \in DOMAIN sessions' :
          sessions'[s].threads = IF s \in DOMAIN sessions THEN sessions[s].threads
                                 ELSE <<>>

\* C19: an upsert with a session_id takes the thread-report path exactly when
\* its parent_id names a session that is live when the upsert runs; otherwise
\* (no parent_id, or one that is unknown or retired) it takes the
\* session-report path for the session named by session_id and creates no
\* thread.
C19_PathSelection ==
    [][\A sid \in SessionIds :
          (UpsertStep /\ NamesSession(req'.data, sid)) =>
              IF ParentIsLive(req'.data)
              THEN TookThreadPath(req'.data["parent_id"])
              ELSE TookSessionPath(sid)]_vars

\* a report naming a parent that has retired created a top-level session
C19_Witness ==
    /\ req.op = "upsert"
    /\ NamesSession(req.data, "s2")
    /\ Has(req.data, "parent_id") /\ req.data["parent_id"] = "s1"
    /\ Len(expired) = 1
    /\ DOMAIN sessions = {"s2"}
    /\ sessions["s2"].threads = <<>>
    /\ sessions["s2"].name = "session-1"
    /\ Has(result.body, "name")

----------------------------------------------------------------------------
(* C20 *)

\* the fields the report leaves out are as stored, the creation timestamp is
\* as stored and the last-report timestamp is the current time
Kept(old, new, data) ==
    /\ \A f \in {"task", "status", "risk"} : ~Has(data, f) => new[f] = old[f]
    /\ new.started = old.started
    /\ new.last_seen = [utc |-> now']

\* C20: an upsert to an existing session or thread leaves each of task, status
\* and risk that the report does not provide at its stored value, leaves the
\* creation timestamp unchanged, and sets the last-report timestamp to the
\* current time whether or not any field changed.
C20_MergeKeepsUnprovided ==
    [][/\ \A sid \in (DOMAIN sessions) \cap (DOMAIN sessions') :
             SessionPathStep(sid) => Kept(sessions[sid], sessions'[sid], req'.data)
       /\ \A pid \in (DOMAIN sessions) \cap (DOMAIN sessions') :
             (/\ ThreadPathStep(pid)
              /\ ReportedThread(req'.data) \in DOMAIN sessions[pid].threads
              /\ ReportedThread(req'.data) \in DOMAIN sessions'[pid].threads) =>
                 Kept(sessions[pid].threads[ReportedThread(req'.data)],
                      sessions'[pid].threads[ReportedThread(req'.data)],
                      req'.data)]_vars

\* a session that set task, status and risk at time 0 has them, and its
\* creation time, after a later report that carries only its id
C20_Witness ==
    /\ req.op = "upsert"
    /\ req.data = [session_id |-> "s1"]
    /\ now = 601
    /\ "s1" \in DOMAIN sessions
    /\ sessions["s1"].task = "build"
    /\ sessions["s1"].status = "Blocked"
    /\ sessions["s1"].risk = "high"
    /\ sessions["s1"].started = [utc |-> 0]
    /\ sessions["s1"].last_seen = [utc |-> 601]

----------------------------------------------------------------------------
(* C15 *)

\* at most one thread is inside a "with lock" block, and it is the holder
OneInside ==
    \A p \in Procs : Holds(p) => lock = p /\ \A q \in Procs \ {p} : ~Holds(q)

\* while p is inside its block no step of another thread touches the store
Uninterrupted(p) ==
    (Holds(p) /\ running'[p] = running[p]) =>
        sessions' = sessions /\ expired' = expired

\* p leaves its block: the store and the returned value are those of the
\* call run alone from the store p found when it took the lock
LeavesAsAlone(p) ==
    (Holds(p) /\ ~Holds(p)') =>
        /\ sessions' = running[p].alone.sessions
        /\ expired' = running[p].alone.expired
        /\ result' = running[p].alone.result
        /\ req' = CallOf(running[p])

\* C15: with concurrent upsert, delete and snapshot calls and the sweeper
\* running, each operation makes all its reads and writes of the store in one
\* uninterrupted hold of the lock: at most one operation is inside its block,
\* and every operation leaves the store and returns the value that it would
\* running alone at the moment it took the lock, so the execution is the
\* serial one in the order of the lock and no snapshot sees a partly applied
\* upsert or sweep.
C15_OperationsAreAtomic ==
    [][/\ OneInside'
       /\ \A p \in Procs : Uninterrupted(p) /\ LeavesAsAlone(p)]_vars

\* an upsert that has stored a "Done" session and not yet retired it, while
\* a snapshot and the sweeper wait for the lock
C15_Witness ==
    /\ running["h1"].pc = "retire"
    /\ "s1" \in DOMAIN sessions /\ sessions["s1"].status = "Done"
    /\ running["h2"].pc = "acquire" /\ running["h2"].op = "snapshot"
    /\ running["sweeper"].pc = "acquire"
    /\ lock = "h1"

----------------------------------------------------------------------------
(* C24 *)

\* C24: in every state in which the lock is free, which are the states a
\* snapshot can observe, no live session has status "Done" and no thread of
\* a live session has status "Done".
C24_NoDoneWhenUnlocked ==
    lock = None =>
        \A sid \in DOMAIN sessions :
            /\ sessions[sid].status # "Done"
            /\ \A tid \in DOMAIN sessions[sid].threads :
                  sessions[sid].threads[tid].status # "Done"

\* the lock is free after a thread of a live session reported "Done"
C24_Witness ==
    /\ lock = None
    /\ req.op = "upsert"
    /\ req.data = [session_id |-> "s1", parent_id |-> "s1", status |-> "Done"]
    /\ Has(result.body, "thread_id")
    /\ "s1" \in DOMAIN sessions
    /\ sessions["s1"].threads = <<>>
    /\ fuel = 0

----------------------------------------------------------------------------
(* C25 *)

\* C25: a thread report changes only the thread mapping of the parent it
\* names: the set of live sessions, the retired log, the parent's own task,
\* status, risk, history and last-report timestamp, and every other session
\* with its threads, are unchanged.
C25_ThreadReportFrame ==
    [][\A pid \in DOMAIN sessions :
          ThreadPathStep(pid) =>
              /\ DOMAIN sessions' = DOMAIN sessions
              /\ expired' = expired
              /\ \A f \in {"session_id", "name", "task", "status", "risk",
                           "history", "started", "last_seen"} :
                    sessions'[pid][f] = sessions[pid][f]
              /\ \A other \in DOMAIN sessions \ {pid} :
                    sessions'[other] = sessions[other]]_vars

\* a report for thread s1 under s2, sent when thread s1 under s1 and the
\* session s2 had been silent for a long time, changed neither
C25_Witness ==
    /\ req.op = "upsert"
    /\ req.data = [session_id |-> "s1", parent_id |-> "s2", task |-> "build"]
    /\ now = 601
    /\ DOMAIN sessions = {"s1", "s2"}
    /\ DOMAIN sessions["s1"].threads = {"s1"}
    /\ DOMAIN sessions["s2"].threads = {"s1"}
    /\ sessions["s1"].threads["s1"].last_seen = [utc |-> 0]
    /\ sessions["s1"].threads["s1"].task = ""
    /\ sessions["s2"].threads["s1"].last_seen = [utc |-> 601]
    /\ sessions["s2"].threads["s1"].task = "build"
    /\ sessions["s2"].last_seen = [utc |-> 0]

----------------------------------------------------------------------------
(* C26 *)

\* a session-path upsert for sid, not live, with status "Done"
DoneForAbsentStep(sid) ==
    /\ SessionPathStep(sid)
    /\ sid \notin DOMAIN sessions
    /\ Has(req'.data, "status") /\ req'.data["status"] = "Done"

\* the last call was a delete that removed sid
JustDeleted(sid) ==
    req.op = "delete" /\ req.sid = sid /\ result.code = 200

\* C26: a session-path upsert with status "Done" for a session id that is not
\* live leaves the live sessions as they are and appends one retired entry,
\* so the log gets an entry for a session that was live in no state; after a
\* delete of the same id the log ends with two entries for it.
C26_DoneForAbsentSession ==
    [][\A sid \in SessionIds :
          DoneForAbsentStep(sid) =>
              /\ sessions' = sessions
              /\ expired' = Append(expired,
                                   [name |-> DisplayName(sid, req'.data),
                                    last_task |-> FinalTask(sid, req'.data),
                                    expired_at |-> now_iso])
              /\ JustDeleted(sid) =>
                    /\ Len(expired') >= 2
                    /\ expired'[Len(expired') - 1] = Last(expired)]_vars

\* s1 was created and deleted, and then reported "Done": two entries, the
\* second with the name and the task of a session that never was in the store
C26_Witness ==
    /\ req.op = "upsert"
    /\ req.data = [session_id |-> "s1", status |-> "Done", task |-> "build"]
    /\ sessions = <<>>
    /\ Len(expired) = 2
    /\ expired[1].last_task = "Session started"
    /\ expired[2] = [name |-> "session-1", last_task |-> "build",
                     expired_at |-> now_iso]
    /\ fuel = MaxCalls - 3

----------------------------------------------------------------------------
(* C23 *)

\* the age of a stored timestamp: zero when it does not parse
AgeOrZero(stamp) == IF DOMAIN stamp = {"utc"} THEN now - stamp.utc ELSE 0

\* the entry has a retirement timestamp that parses and is 300 s old or more
Purgeable(e) ==
    /\ Has(e, "expired_at")
    /\ DOMAIN e["expired_at"] = {"utc"}
    /\ now - e["expired_at"].utc >= 300

StaysInLog(e) == ~Purgeable(e)

\* a listed session or thread is classified by its age, fresh when its
\* timestamp does not parse
ClassifiedByAgeOrZero(view) ==
    /\ view.staleness = TierOfAge(AgeOrZero(view.last_seen))
    /\ DOMAIN view.last_seen # {"utc"} =>
          view.staleness = "ok" /\ view.last_seen_relative = "0s ago"

\* C23: a stored timestamp that does not parse counts as age zero: the entity
\* is classified fresh, a thread with such a last-report timestamp survives a
\* sweep pass, a retired entry with such a retirement timestamp, or none,
\* is not purged, and the pass and the snapshot treat every other entry as
\* usual.
C23_UnparsableIsAgeZero ==
    [][/\ SnapshotStep =>
             /\ result'.code = 200
             /\ DOMAIN result'.body.sessions = DOMAIN sessions
             /\ \A sid \in DOMAIN sessions :
                   /\ ClassifiedByAgeOrZero(result'.body.sessions[sid])
                   /\ DOMAIN result'.body.sessions[sid].threads = DOMAIN sessions[sid].threads
                   /\ \A tid \in DOMAIN sessions[sid].threads :
                         ClassifiedByAgeOrZero(result'.body.sessions[sid].threads[tid])
       /\ SweepStep =>
             /\ DOMAIN sessions' = DOMAIN sessions
             /\ \A sid \in DOMAIN sessions :
                   DOMAIN sessions'[sid].threads =
                      {tid \in DOMAIN sessions[sid].threads :
                          AgeOrZero(sessions[sid].threads[tid].last_seen) <= 600}
             /\ expired' = SelectSeq(expired, StaysInLog)]_vars

\* after a pass at 601 s: the thread with the garbled timestamp is left and
\* the other is gone, and the log holds an entry with a garbled timestamp
\* followed by one with none
C23_Witness ==
    /\ req.op = "sweep"
    /\ now = 601
    /\ DOMAIN sessions["s1"].threads = {"t1"}
    /\ sessions["s1"].threads["t1"].last_seen = Garbled
    /\ Len(expired) = 2
    /\ Has(expired[1], "expired_at") /\ expired[1]["expired_at"] = Garbled
    /\ ~Has(expired[2], "expired_at")

----------------------------------------------------------------------------
(* C21 *)

Waits(p) == running[p].pc = "acquire"

\* C21: no deadlock and no starvation: with a fair lock every upsert, delete,
\* snapshot and sweep pass that has started gets the lock, and every thread
\* that has the lock completes its operation and releases it; the sweeper
\* does not hold the lock while it sleeps between passes.
C21_NoStarvation ==
    /\ \A p \in Procs : Waits(p) ~> Holds(p)
    /\ \A p \in Procs : Holds(p) ~> (running[p].pc = "idle" /\ lock # p)
    /\ [](running["sweeper"].pc = "idle" => lock # "sweeper")

\* the sweeper is in the middle of a pass while an upsert and a delete wait
C21_Witness ==
    /\ running["sweeper"].pc = "purge"
    /\ lock = "sweeper"
    /\ Waits("h1") /\ running["h1"].op = "upsert"
    /\ Waits("h2") /\ running["h2"].op = "delete"

----------------------------------------------------------------------------
(* C22 *)

\* tid is a thread of the live session sid, silent for more than 600 s
SilentTooLong(sid, tid) ==
    /\ sid \in DOMAIN sessions
    /\ tid \in DOMAIN sessions[sid].threads
    /\ AgeOf(sessions[sid].threads[tid].last_seen) > 600

\* the log has an entry retired 300 s ago or more
RetiredLongAgo ==
    \E i \in 1..Len(expired) : AgeOf(expired[i].expired_at) >= 300

\* a thread leaves a session that stays live in this step
ThreadLeaves(sid, tid) ==
    /\ sid \in DOMAIN sessions /\ sid \in DOMAIN sessions'
    /\ tid \in DOMAIN sessions[sid].threads
    /\ tid \notin DOMAIN sessions'[sid].threads

\* C22: with the sweeper making its passes and the clock advancing, a thread
\* that gets no further report, once silent for more than 600 s, is
\* eventually removed unless its parent is retired first, and a retired
\* entry, once 300 s old, is eventually removed from the log, with or
\* without further reports; a thread leaves a live parent only in a
\* pass that finds it silent for more than 600 s or by its own "Done" report,
\* so one that is re-reported every 600 s or less and is not "Done" stays.
C22_SilentThreadsAndEntriesGo ==
    /\ \A sid \in SessionIds : \A tid \in SessionIds :
          SilentTooLong(sid, tid) ~> ~SilentTooLong(sid, tid)
    /\ RetiredLongAgo ~> ~RetiredLongAgo
    /\ [][\A sid \in SessionIds : \A tid \in SessionIds :
             ThreadLeaves(sid, tid) =>
                 \/ /\ SweepStep
                    /\ AgeOf(sessions[sid].threads[tid].last_seen) > 600
                 \/ /\ ThreadPathStep(sid)
                    /\ ReportedThread(req'.data) = tid
                    /\ Get(req'.data, "status", "Running") = "Done"]_vars

\* the clock has passed both windows for a thread and a retired entry of
\* time 0 that the next pass will remove
C22_Witness ==
    /\ now > 600
    /\ SilentTooLong("s1", "s2")
    /\ sessions["s1"].threads["s2"].last_seen = [utc |-> 0]
    /\ RetiredLongAgo
    /\ req.op = "upsert"

====
